---- MODULE Spec2Model ----
(***************************************************************************)
(* Station-data export/import pipeline of ichnaea (ichnaea/export/tasks.py) *)
(* as a state machine: one job at a time (an export of cell_table to a     *)
(* staged csv file and to object storage, or an import of a csv file into  *)
(* ocid_cell_table), attempt after attempt as the scheduler re-invokes it. *)
(***************************************************************************)
EXTENDS Integers, Sequences, FiniteSets, TLC

(***************************************************************************)
(* Bounds of the model.                                                    *)
(***************************************************************************)
\* Longest import file, in lines.
MaxFileLen == 3
\* Most rows of cell_table other sessions change during one export.
MaxTouched == 1
\* Most attempts the scheduler makes of one job.
MaxAttempts == 2
\* Rows per import batch: the source's `batch = 10000' (line 217), scaled
\* down so that files of MaxFileLen lines span several batches.
batch == 2
\* Rows per export page: the source's `limit = 10000' (line 155), scaled down
\* likewise.
limit == 2
\* Last hour of the modelled clock.
MaxHour == 3

(***************************************************************************)
(* Field values of a csv line.  A field is the empty string, an integer    *)
(* literal ("12"), a decimal literal with a fraction ("1.5", kept in       *)
(* tenths) or other text ("abc", "GSM").                                   *)
(***************************************************************************)
E == [kind |-> "empty", n |-> 0, s |-> ""]
I(n) == [kind |-> "int", n |-> n, s |-> ""]
F(tenths) == [kind |-> "float", n |-> tenths, s |-> ""]
T(s) == [kind |-> "text", n |-> 0, s |-> s]

CELL_FIELDS ==
    <<"radio", "mcc", "mnc", "lac", "cid", "psc", "lon", "lat", "range",
      "samples", "changeable", "created", "updated", "averageSignal">>

\* Internal names to the public export names.
CELL_HEADER_DICT ==
    [f \in {CELL_FIELDS[i] : i \in 1..Len(CELL_FIELDS)} |->
        CASE f = "mnc" -> "net"
          [] f = "lac" -> "area"
          [] f = "cid" -> "cell"
          [] f = "psc" -> "unit"
          [] OTHER -> f]

\* models.CELLID_LAC, the cid of a LAC-aggregate placeholder row.
CELLID_LAC == -2

\* models.RADIO_TYPE: radio names to internal codes.
RADIO_TYPE == [gsm |-> 0, cdma |-> 1, umts |-> 2, wcdma |-> 2, lte |-> 3]

\* models.RADIO_TYPE_INVERSE upper-cased: codes to export names; -1 is the
\* code of an unknown radio.
CELL_EXPORT_RADIO_NAMES ==
    [c \in {-1, 0, 1, 2, 3} |->
        CASE c = -1 -> ""
          [] c = 0 -> "GSM"
          [] c = 1 -> "CDMA"
          [] c = 2 -> "UMTS"
          [] c = 3 -> "LTE"]

\* str.lower() on the radio names that occur.
Lower(s) ==
    CASE s = "GSM" -> "gsm"
      [] s = "UMTS" -> "umts"
      [] s = "LTE" -> "lte"
      [] s = "CDMA" -> "cdma"
      [] OTHER -> s

(***************************************************************************)
(* make_cell_import_dict: a csv line to an internal row.                   *)
(***************************************************************************)
\* val(key, default): the field unless it is empty.
val(row, key, default) ==
    IF row[key].kind /= "empty" THEN row[key] ELSE default

\* int(x) raises ValueError unless x is an integer literal.
IntRaises(x) == x.kind /= "int"
int(x) == x.n

\* float(x) raises ValueError on text; the value is kept in tenths.
FloatRaises(x) == x.kind \notin {"int", "float"}
float(x) == IF x.kind = "int" THEN x.n * 10 ELSE x.n

\* int(float(x)): truncation towards zero.
IntOfFloat(x) ==
    IF float(x) >= 0 THEN float(x) \div 10 ELSE -((-float(x)) \div 10)

\* ichnaea.data.validation.normalized_cell_dict: the row, or None (the empty
\* set) for a row that is no valid record (a negative range).
normalized_cell_dict(d) == IF d.range < 0 THEN {} ELSE {d}

\* The conversion raises (ValueError) on a non-numeric field.
ImportDictRaises(row) ==
    \/ IntRaises(val(row, "created", I(0)))
    \/ IntRaises(val(row, "updated", I(0)))
    \/ FloatRaises(val(row, "lat", I(-255)))
    \/ FloatRaises(val(row, "lon", I(-255)))
    \/ \E k \in {"mcc", "mnc", "lac", "cid", "psc"} : IntRaises(val(row, k, I(-1)))
    \/ FloatRaises(val(row, "range", I(0)))
    \/ IntRaises(val(row, "samples", I(-1)))

\* A mutation of make_cell_import_dict: an empty lat, lon or psc becomes 0.
make_cell_import_dict_zero(row) ==
    normalized_cell_dict(
        [created |-> int(val(row, "created", I(0))),
         modified |-> int(val(row, "updated", I(0))),
         lat |-> float(val(row, "lat", I(0))),
         lon |-> float(val(row, "lon", I(0))),
         radio |-> IF Lower(row["radio"].s) \in DOMAIN RADIO_TYPE
                   THEN RADIO_TYPE[Lower(row["radio"].s)] ELSE -1,
         mcc |-> int(val(row, "mcc", I(-1))),
         mnc |-> int(val(row, "mnc", I(-1))),
         lac |-> int(val(row, "lac", I(-1))),
         cid |-> int(val(row, "cid", I(-1))),
         psc |-> int(val(row, "psc", I(0))),
         range |-> IntOfFloat(val(row, "range", I(0))),
         total_measures |-> int(val(row, "samples", I(-1))),
         changeable |-> TRUE])

\* The result when nothing raises: {} for None, {d} for a row.
make_cell_import_dict(row) ==
    normalized_cell_dict(
        [created |-> int(val(row, "created", I(0))),
         modified |-> int(val(row, "updated", I(0))),
         lat |-> float(val(row, "lat", I(-255))),
         lon |-> float(val(row, "lon", I(-255))),
         radio |-> IF Lower(row["radio"].s) \in DOMAIN RADIO_TYPE
                   THEN RADIO_TYPE[Lower(row["radio"].s)] ELSE -1,
         mcc |-> int(val(row, "mcc", I(-1))),
         mnc |-> int(val(row, "mnc", I(-1))),
         lac |-> int(val(row, "lac", I(-1))),
         cid |-> int(val(row, "cid", I(-1))),
         psc |-> int(val(row, "psc", I(-1))),
         range |-> IntOfFloat(val(row, "range", I(0))),
         total_measures |-> int(val(row, "samples", I(-1))),
         \* bool() of a non-empty string, or of the default True
         changeable |-> TRUE])

(***************************************************************************)
(* The upsert of import_stations: INSERT ... ON DUPLICATE KEY UPDATE.      *)
(* A table is the sequence of its rows in insertion order.                 *)
(***************************************************************************)
\* The natural key of ocid_cell_table (its primary key).
NaturalKey(d) == <<d.radio, d.mcc, d.mnc, d.lac, d.cid>>

\* A mutation of OnDuplicate: the sample counts are added up.
OnDuplicateAddsSamples(old, d) ==
    [old EXCEPT !.modified = d.modified,
                !.total_measures = old.total_measures + d.total_measures,
                !.lat = d.lat,
                !.lon = d.lon,
                !.psc = d.psc,
                !.range = d.range]

\* A mutation of OnDuplicate: the larger sample count is kept.
OnDuplicateKeepsMoreSamples(old, d) ==
    [old EXCEPT !.modified = d.modified,
                !.total_measures =
                    IF old.total_measures > d.total_measures
                    THEN old.total_measures ELSE d.total_measures,
                !.lat = d.lat,
                !.lon = d.lon,
                !.psc = d.psc,
                !.range = d.range]

\* A mutation of OnDuplicate: created is taken from the incoming row too.
OnDuplicateOverwritesCreated(old, d) ==
    [old EXCEPT !.created = d.created,
                !.modified = d.modified,
                !.total_measures = d.total_measures,
                !.lat = d.lat,
                !.lon = d.lon,
                !.psc = d.psc,
                !.range = d.range]

\* on_duplicate: the columns taken from the incoming row.
OnDuplicate(old, d) ==
    [old EXCEPT !.modified = d.modified,
                !.total_measures = d.total_measures,
                !.lat = d.lat,
                !.lon = d.lon,
                !.psc = d.psc,
                !.range = d.range]

\* A mutation of Upsert: a plain insert, without the on_duplicate clause.
UpsertInsertsOnly(table, d) == Append(table, d)

\* A mutation of Upsert: a row whose key exists is ignored.
UpsertIgnoresDuplicate(table, d) ==
    IF \E i \in 1..Len(table) : NaturalKey(table[i]) = NaturalKey(d)
    THEN table
    ELSE Append(table, d)

\* One row of the statement: update the row of that key, or insert.
Upsert(table, d) ==
    IF \E i \in 1..Len(table) : NaturalKey(table[i]) = NaturalKey(d)
    THEN [i \in 1..Len(table) |->
            IF NaturalKey(table[i]) = NaturalKey(d)
            THEN OnDuplicate(table[i], d) ELSE table[i]]
    ELSE Append(table, d)

RECURSIVE UpsertAll(_, _)
\* sess.execute(ins, rows); sess.commit(): the rows in list order.
UpsertAll(table, rows) ==
    IF rows = <<>> THEN table
    ELSE UpsertAll(Upsert(table, Head(rows)), Tail(rows))

(***************************************************************************)
(* The lines of the import files the model draws from.                     *)
(***************************************************************************)
\* A csv line of key (GSM, 100, 1, 1, 1).
RowA1 ==
    [radio |-> T("GSM"), mcc |-> I(100), mnc |-> I(1), lac |-> I(1),
     cid |-> I(1), psc |-> E, lon |-> F(20), lat |-> F(10),
     range |-> I(1000), samples |-> I(3), changeable |-> I(1),
     created |-> I(10), updated |-> I(20), averageSignal |-> E]
\* Another line of the same key, with other values in every other column.
RowA2 ==
    [RowA1 EXCEPT !.psc = I(5), !.lon = F(25), !.lat = F(15),
                  !.range = F(5005), !.samples = I(7), !.changeable = I(0),
                  !.created = I(11), !.updated = I(30)]
\* A line of key (LTE, 100, 1, 2, 2) without coordinates.
RowB ==
    [RowA1 EXCEPT !.radio = T("lte"), !.lac = I(2), !.cid = I(2),
                  !.lon = E, !.lat = E, !.samples = E]
\* A line whose range is not a number.
RowBad == [RowA1 EXCEPT !.cid = I(3), !.range = T("abc")]
\* A line normalized_cell_dict rejects.
RowRejected == [RowA1 EXCEPT !.cid = I(4), !.range = I(-1)]
\* The header line of an export file.
RowHeader ==
    [f \in {CELL_FIELDS[i] : i \in 1..Len(CELL_FIELDS)} |-> T(CELL_HEADER_DICT[f])]

\* The lines an import file is made of, by name.
LineNames == {"A1", "A2", "B", "Bad", "Rejected", "Header"}
Line(name) ==
    CASE name = "A1" -> RowA1
      [] name = "A2" -> RowA2
      [] name = "B" -> RowB
      [] name = "Bad" -> RowBad
      [] name = "Rejected" -> RowRejected
      [] name = "Header" -> RowHeader

(***************************************************************************)
(* import_stations, line by line.                                          *)
(***************************************************************************)
\* 'radio' in row.values()
IsHeader(row) ==
    \E f \in DOMAIN row : row[f].kind = "text" /\ row[f].s = "radio"

\* The line is skipped as a header.
SkipsHeader(first, row) == first /\ IsHeader(row)

\* rows after the line's `rows.append(d)'.
Appended(rows, row) ==
    IF make_cell_import_dict(row) = {} THEN rows
    ELSE Append(rows, CHOOSE d \in make_cell_import_dict(row) : TRUE)

RECURSIVE ScanFrom(_, _, _, _)
\* The rows the loop appends from line i on, up to the end of the file or
\* the first line whose conversion raises.
ScanFrom(file, i, first, acc) ==
    IF i > Len(file) THEN acc
    ELSE IF SkipsHeader(first, Line(file[i])) THEN ScanFrom(file, i + 1, FALSE, acc)
    ELSE IF ImportDictRaises(Line(file[i])) THEN acc
    ELSE ScanFrom(file, i + 1, first, Appended(acc, Line(file[i])))

\* The accepted rows of a file, in file order.
Accepted(file) == ScanFrom(file, 1, TRUE, <<>>)

RECURSIVE RunImport(_, _)
\* import_stations without an interruption, on the accepted rows: a commit
\* per full batch, and one for the rows left at the end.
RunImport(table, acc) ==
    IF acc = <<>> THEN table
    ELSE IF Len(acc) <= batch THEN UpsertAll(table, acc)
    ELSE RunImport(UpsertAll(table, SubSeq(acc, 1, batch)),
                   SubSeq(acc, batch + 1, Len(acc)))

(***************************************************************************)
(* The export: window, predicate, pages, csv lines.  Times are epoch       *)
(* seconds (util.utcnow() has no sub-second part).  A nullable column is   *)
(* the empty set for NULL and {v} for a value.                             *)
(***************************************************************************)
\* timedelta(hours=1), in seconds.
HOUR == 3600
\* Seconds of a day.
DAY == 86400

\* datetime.replace(minute=..., second=...): the date and hour are kept.
Replace(t, minute, second) == (t \div HOUR) * HOUR + minute * 60 + second

\* A mutation of EndTime: the second is not reset.
EndTimeKeepsSecond(t) == Replace(t, 0, t % 60)

\* end_time = now.replace(minute=0, second=0)
EndTime(t) == Replace(t, 0, 0)

\* start_time = end_time - timedelta(hours=1)
StartTime(t) == EndTime(t) - HOUR

\* file_time: end_time of an hourly export, now.replace(hour=0, minute=0,
\* second=0) of a full one.
FileTime(hourly, t) == IF hourly THEN EndTime(t) ELSE (t \div DAY) * DAY

\* filename: 'MLS-<type>-cell-export-' and the file time to the hour.
Filename(hourly, t) ==
    <<IF hourly THEN "diff" ELSE "full", FileTime(hourly, t) \div HOUR>>

\* cond: the rows an export selects.
Cond(hourly, t, r) ==
    /\ hourly => (r.modified >= StartTime(t) /\ r.modified < EndTime(t))
    /\ r.cid /= CELLID_LAC
    /\ r.lat /= {}

\* A mutation of Page: the query's LIMIT is one row short of the step of
\* the offset.
PageOneShort(table, hourly, t, offset) ==
    LET all == SelectSeq(table, LAMBDA r : Cond(hourly, t, r))
    IN  SubSeq(all, offset + 1,
               IF offset + limit - 1 < Len(all) THEN offset + limit - 1 ELSE Len(all))

\* A mutation of Page: the query has no LIMIT.
PageWithoutLimit(table, hourly, t, offset) ==
    LET all == SelectSeq(table, LAMBDA r : Cond(hourly, t, r))
    IN  SubSeq(all, offset + 1, Len(all))

\* A mutation of Page: the page starts at the row the offset counts last.
PageOverlaps(table, hourly, t, offset) ==
    LET all == SelectSeq(table, LAMBDA r : Cond(hourly, t, r))
    IN  SubSeq(all, IF offset = 0 THEN 1 ELSE offset,
               IF offset + limit < Len(all) THEN offset + limit ELSE Len(all))

\* select(columns).where(cond).limit(limit).offset(offset).order_by(id):
\* the table is kept in id order.
Page(table, hourly, t, offset) ==
    LET all == SelectSeq(table, LAMBDA r : Cond(hourly, t, r))
    IN  SubSeq(all, offset + 1,
               IF offset + limit < Len(all) THEN offset + limit ELSE Len(all))

\* A mutation of RadioCode: a code without a name becomes -1, as None does.
RadioCodeCoerced(r) ==
    IF r.radio \subseteq DOMAIN CELL_EXPORT_RADIO_NAMES /\ r.radio /= {}
    THEN CHOOSE c \in r.radio : TRUE ELSE -1

\* radio = row[ix['radio']], -1 for None.
RadioCode(r) == IF r.radio = {} THEN -1 ELSE CHOOSE c \in r.radio : TRUE

\* CELL_EXPORT_RADIO_NAMES[radio] raises KeyError.
ExportDictRaises(r) == RadioCode(r) \notin DOMAIN CELL_EXPORT_RADIO_NAMES

\* make_cell_export_dict: a table row to the fields of a csv line.
make_cell_export_dict(r) ==
    [radio |-> CELL_EXPORT_RADIO_NAMES[RadioCode(r)],
     mcc |-> r.mcc, mnc |-> r.mnc, lac |-> r.lac, cid |-> r.cid,
     psc |-> IF r.psc = {} \/ r.psc = {-1} THEN {} ELSE r.psc,
     lon |-> r.lon, lat |-> r.lat, range |-> r.range,
     samples |-> r.total_measures, changeable |-> 1,
     created |-> r.created, updated |-> r.modified,
     averageSignal |-> ""]

\* A csv line of an export: the header (its column names), or a data row.
HeaderLine ==
    [hdr |-> [i \in 1..Len(CELL_FIELDS) |-> CELL_HEADER_DICT[CELL_FIELDS[i]]],
     row |-> {}]
DataLine(r) == [hdr |-> <<>>, row |-> {make_cell_export_dict(r)}]

\* A mutation of DataLines: the header row is written with every page.
DataLinesAfterHeader(rows) ==
    <<HeaderLine>> \o [i \in 1..Len(rows) |-> DataLine(rows[i])]

\* w.writerows([make_dict(r) for r in rows])
DataLines(rows) == [i \in 1..Len(rows) |-> DataLine(rows[i])]

\* The data rows of a csv file.
DataRows(lines) ==
    {CHOOSE d \in lines[i].row : TRUE : i \in {j \in 1..Len(lines) : lines[j].row /= {}}}

(***************************************************************************)
(* The inputs the model draws from.                                        *)
(***************************************************************************)
\* The import files: every sequence of at most MaxFileLen of the lines, each
\* named by its entry in Line.
Files == UNION {[1..n -> LineNames] : n \in 0..MaxFileLen}

\* A row ocid_cell_table may hold before the import: key (GSM, 100, 1, 1, 1).
OldRow ==
    [created |-> 5, modified |-> 6, lat |-> 70, lon |-> 80, radio |-> 0,
     mcc |-> 100, mnc |-> 1, lac |-> 1, cid |-> 1, psc |-> 9, range |-> 90,
     total_measures |-> 2, changeable |-> FALSE]

OcidTables == {<<>>, <<OldRow>>}

\* The instants the clock takes: the first and the last second of each hour.
Instants == {h * HOUR + s : h \in 1..MaxHour, s \in {0, HOUR - 1}}

\* Rows cell_table may hold, in id order.
CellRow(id, modified, cid, lat, lon, radio) ==
    [id |-> id, created |-> 0, modified |-> modified, lat |-> lat, lon |-> lon,
     radio |-> radio, mcc |-> 100, mnc |-> 1, lac |-> 1, cid |-> cid,
     psc |-> IF id = 1 THEN {-1} ELSE IF id = 2 THEN {} ELSE {7},
     range |-> 1000,
     total_measures |-> 3]

CellPool ==
    <<CellRow(1, 1 * HOUR, 1, {10}, {20}, {0}),
      CellRow(2, 2 * HOUR - 1, 2, {30}, {40}, {3}),
      CellRow(3, 2 * HOUR, 3, {50}, {60}, {2}),
      CellRow(4, 2 * HOUR, CELLID_LAC, {50}, {60}, {0}),
      CellRow(5, 2 * HOUR, 5, {}, {}, {0}),
      CellRow(6, 2 * HOUR + 1, 6, {10}, {}, {0}),
      CellRow(7, 1 * HOUR + 1, 7, {-2550}, {-2550}, {0}),
      CellRow(8, 2 * HOUR, 8, {10}, {20}, {9})>>

\* The tables: the pool rows of every range of ids, in id order.
CellTables ==
    {SubSeq(CellPool, i, j) : i \in 1..(Len(CellPool) + 1), j \in 0..Len(CellPool)}

(***************************************************************************)
(* State.                                                                  *)
(***************************************************************************)
VARIABLES
    kind,             \* the task of this behaviour and its mode
    pc,               \* where the current attempt is
    err,              \* what ended the attempt: "none" or the failing step
    attempt,          \* number of the current attempt
    now,              \* the clock
    ocid_cell_table,  \* the committed rows of ocid_cell_table
    cell_table,       \* the rows of cell_table, in id order
    file,             \* the lines of the import file, by name
    response,         \* the provider's answer to the attempt's GET
    tempdir,          \* the temporary directory and the file staged in it
    rd,               \* import_stations' locals: pos, first, rows
    ex,               \* the export's locals: now as read, offset
    csv,              \* the lines written to the export file
    s3,               \* the objects of the bucket
    startStore,       \* ocid_cell_table when the attempt started
    nCommitted,       \* batches the attempt has committed
    skipped,          \* the lines the attempt skipped as a header
    runs,             \* attempts that ended without an I/O fault
    snap,             \* ocid_cell_table at the end of the first such attempt
    partials,         \* earlier attempts that failed after a commit
    store0,           \* ocid_cell_table before the first attempt
    prev,             \* the clock reading of the export attempt before, if it failed
    jobs,             \* the import jobs that run side by side, and their locals
    applied,          \* the rows those jobs upserted, in the order applied
    touched           \* ids of the cell_table rows changed during the export

vars ==
    <<kind, pc, err, attempt, now, ocid_cell_table, cell_table, file,
      response, tempdir, rd, ex, csv, s3, startStore, nCommitted, skipped,
      runs, snap, partials, store0, prev, jobs, applied, touched>>

importState == <<ocid_cell_table, rd, startStore, nCommitted, skipped, runs, snap, partials>>
exportState == <<ex, csv, s3, prev>>
inputs == <<kind, cell_table, file, store0, jobs, applied, touched>>

ImportKinds == {"import_ocid_cells", "import_latest_ocid_cells"}
ExportKinds == {"export_hourly", "export_full"}
Running == {"Download", "Read", "Write", "Upload"}
Ended == {"Done", "Failed", "Cancelled"}

Init ==
    /\ kind \in ImportKinds \cup ExportKinds
    /\ pc = "Idle"
    /\ err = "none"
    /\ attempt = 1
    /\ now = HOUR
    /\ IF kind \in ImportKinds
       THEN file \in Files /\ ocid_cell_table \in OcidTables /\ cell_table = <<>>
       ELSE file = <<>> /\ ocid_cell_table = <<>> /\ cell_table \in CellTables
    /\ response = "none"
    /\ tempdir = "none"
    /\ rd = [pos |-> 1, first |-> TRUE, rows |-> <<>>]
    /\ ex = [now |-> 0, offset |-> 0]
    /\ csv = <<>>
    /\ s3 = {}
    /\ startStore = ocid_cell_table
    /\ nCommitted = 0
    /\ skipped = {}
    /\ runs = 0
    /\ snap = {}
    /\ partials = 0
    /\ store0 = ocid_cell_table
    /\ prev = {}
    /\ jobs = <<>>
    /\ applied = <<>>
    /\ touched = {}

(***************************************************************************)
(* selfdestruct_tempdir and the tasks' except clauses.                     *)
(***************************************************************************)
\* A mutation of ScopeExit: the directory is removed on normal exit only.
ScopeExitNoFinally(dir, raised) == IF raised THEN dir ELSE "none"

\* The directory when the with-block is left: `finally: shutil.rmtree'.
ScopeExit(dir, raised) == "none"

\* The attempt ends with an exception of step e: the directory scope is
\* left, then `raise self.retry(exc=exc)'.
Fail(e) ==
    /\ pc' = "Failed"
    /\ err' = e
    /\ tempdir' = IF tempdir = "none" THEN "none" ELSE ScopeExit(tempdir, TRUE)
    /\ partials' = IF nCommitted > 0 THEN partials + 1 ELSE partials

\* The end of an attempt of an import that no I/O fault ended.
NaturalEnd(table) ==
    /\ runs' = runs + 1
    /\ snap' = IF runs = 0 THEN {table} ELSE snap

(***************************************************************************)
(* The import tasks.                                                       *)
(***************************************************************************)
\* A mutation of ExecuteCommit: the first row of the batch is lost.
ExecuteCommitDropsRow(table, rows) == UpsertAll(table, Tail(rows))

\* sess.execute(ins, rows); sess.commit()
ExecuteCommit(table, rows) == UpsertAll(table, rows)

FreshReader == [pos |-> 1, first |-> TRUE, rows |-> <<>>]

\* import_ocid_cells: the file is a local path; import_stations starts.
StartImportLocal ==
    /\ kind = "import_ocid_cells" /\ pc = "Idle"
    /\ pc' = "Read"
    /\ rd' = FreshReader
    /\ startStore' = ocid_cell_table
    /\ nCommitted' = 0
    /\ skipped' = {}
    /\ UNCHANGED <<err, attempt, now, ocid_cell_table, response, tempdir,
                   runs, snap, partials, exportState, inputs>>

\* import_latest_ocid_cells: requests.get answers, and the temporary
\* directory is made.  The status of the answer is not looked at.
FetchAnswers ==
    /\ kind = "import_latest_ocid_cells" /\ pc = "Idle"
    /\ \E r \in {"ok", "http_error"} : response' = r
    /\ pc' = "Download"
    /\ tempdir' = "empty"
    /\ rd' = FreshReader
    /\ startStore' = ocid_cell_table
    /\ nCommitted' = 0
    /\ skipped' = {}
    /\ UNCHANGED <<err, attempt, now, ocid_cell_table, runs, snap, partials,
                   exportState, inputs>>

\* requests.get raises (no connection): no directory was made yet.
FetchRaises ==
    /\ kind = "import_latest_ocid_cells" /\ pc = "Idle"
    /\ rd' = FreshReader
    /\ startStore' = ocid_cell_table
    /\ nCommitted' = 0
    /\ skipped' = {}
    /\ pc' = "Failed"
    /\ err' = "fetch"
    /\ UNCHANGED <<attempt, now, ocid_cell_table, response, tempdir, runs,
                   snap, partials, exportState, inputs>>

\* The body is written to the staged file, chunk by chunk: the file, or the
\* error page of a non-200 answer.
Download ==
    /\ pc = "Download"
    /\ tempdir' = IF response = "ok" THEN "complete" ELSE "garbage"
    /\ pc' = "Read"
    /\ UNCHANGED <<err, attempt, now, response, importState, exportState, inputs>>

\* iter_content or f.write raises part-way.
DownloadRaises ==
    /\ pc = "Download"
    /\ Fail("fetch")
    /\ UNCHANGED <<attempt, now, response, ocid_cell_table, rd, startStore,
                   nCommitted, skipped, runs, snap, exportState, inputs>>

\* The file import_stations reads is a gzip file of csv lines.
Readable == kind = "import_ocid_cells" \/ tempdir = "complete"

\* The staged file is no gzip file: the first read raises IOError.
ReadGarbage ==
    /\ pc = "Read" /\ tempdir = "garbage"
    /\ Fail("read")
    /\ UNCHANGED <<attempt, now, response, ocid_cell_table, rd, startStore,
                   nCommitted, skipped, runs, snap, exportState, inputs>>

\* Reading the next line raises (an I/O error).
ReadRaises ==
    /\ pc = "Read" /\ Readable
    /\ Fail("read")
    /\ UNCHANGED <<attempt, now, response, ocid_cell_table, rd, startStore,
                   nCommitted, skipped, runs, snap, exportState, inputs>>

\* `if first and 'radio' in row.values(): first = False; continue'
ReadHeader ==
    /\ pc = "Read" /\ Readable /\ rd.pos <= Len(file)
    /\ SkipsHeader(rd.first, Line(file[rd.pos]))
    /\ rd' = [rd EXCEPT !.pos = rd.pos + 1, !.first = FALSE]
    /\ skipped' = skipped \cup {rd.pos}
    /\ UNCHANGED <<pc, err, attempt, now, response, tempdir, ocid_cell_table,
                   startStore, nCommitted, runs, snap, partials, exportState,
                   inputs>>

\* make_dict(row) raises: nothing catches it before the task's except clause.
ReadConvertRaises ==
    /\ pc = "Read" /\ Readable /\ rd.pos <= Len(file)
    /\ ~SkipsHeader(rd.first, Line(file[rd.pos]))
    /\ ImportDictRaises(Line(file[rd.pos]))
    /\ Fail("convert")
    /\ NaturalEnd(ocid_cell_table)
    /\ UNCHANGED <<attempt, now, response, ocid_cell_table, rd, startStore,
                   nCommitted, skipped, exportState, inputs>>

\* The line is converted and appended (unless None); the batch is not full.
ReadAppend ==
    /\ pc = "Read" /\ Readable /\ rd.pos <= Len(file)
    /\ ~SkipsHeader(rd.first, Line(file[rd.pos]))
    /\ ~ImportDictRaises(Line(file[rd.pos]))
    /\ Len(Appended(rd.rows, Line(file[rd.pos]))) /= batch
    /\ rd' = [rd EXCEPT !.pos = rd.pos + 1,
                        !.rows = Appended(rd.rows, Line(file[rd.pos]))]
    /\ UNCHANGED <<pc, err, attempt, now, response, tempdir, ocid_cell_table,
                   startStore, nCommitted, skipped, runs, snap, partials,
                   exportState, inputs>>

\* The line fills the batch: execute, commit, rows = [].
ReadFlush ==
    /\ pc = "Read" /\ Readable /\ rd.pos <= Len(file)
    /\ ~SkipsHeader(rd.first, Line(file[rd.pos]))
    /\ ~ImportDictRaises(Line(file[rd.pos]))
    /\ Len(Appended(rd.rows, Line(file[rd.pos]))) = batch
    /\ ocid_cell_table' =
          ExecuteCommit(ocid_cell_table, Appended(rd.rows, Line(file[rd.pos])))
    /\ nCommitted' = nCommitted + 1
    /\ rd' = [rd EXCEPT !.pos = rd.pos + 1, !.rows = <<>>]
    /\ UNCHANGED <<pc, err, attempt, now, response, tempdir, startStore,
                   skipped, runs, snap, partials, exportState, inputs>>

\* The line fills the batch and execute or commit raises: the transaction
\* is not committed.
ReadFlushRaises ==
    /\ pc = "Read" /\ Readable /\ rd.pos <= Len(file)
    /\ ~SkipsHeader(rd.first, Line(file[rd.pos]))
    /\ ~ImportDictRaises(Line(file[rd.pos]))
    /\ Len(Appended(rd.rows, Line(file[rd.pos]))) = batch
    /\ rd' = [rd EXCEPT !.rows = Appended(rd.rows, Line(file[rd.pos]))]
    /\ Fail("store")
    /\ UNCHANGED <<attempt, now, response, ocid_cell_table, startStore,
                   nCommitted, skipped, runs, snap, exportState, inputs>>

\* End of the file: `if rows: execute, commit'; the scopes are left.
ReadEnd ==
    /\ pc = "Read" /\ Readable /\ rd.pos > Len(file)
    /\ ocid_cell_table' =
          IF rd.rows /= <<>> THEN ExecuteCommit(ocid_cell_table, rd.rows)
          ELSE ocid_cell_table
    /\ nCommitted' = IF rd.rows /= <<>> THEN nCommitted + 1 ELSE nCommitted
    /\ rd' = [rd EXCEPT !.rows = <<>>]
    /\ pc' = "Done"
    /\ tempdir' = IF tempdir = "none" THEN "none" ELSE ScopeExit(tempdir, FALSE)
    /\ NaturalEnd(ocid_cell_table')
    /\ UNCHANGED <<err, attempt, now, response, startStore, skipped, partials,
                   exportState, inputs>>

\* End of the file, and the last execute or commit raises.
ReadEndRaises ==
    /\ pc = "Read" /\ Readable /\ rd.pos > Len(file)
    /\ rd.rows /= <<>>
    /\ Fail("store")
    /\ UNCHANGED <<attempt, now, response, ocid_cell_table, rd, startStore,
                   nCommitted, skipped, runs, snap, exportState, inputs>>

(***************************************************************************)
(* The export task.                                                        *)
(***************************************************************************)
Hourly == kind = "export_hourly"

\* A mutation of WriteRaised: the writer swallows the exception and the task
\* goes on to the upload.
WriteRaisedSwallowed(dir) == [pc |-> "Upload", tempdir |-> dir]

\* An exception in write_stations_to_csv leaves the directory scope and
\* reaches the except clause.
WriteRaised(dir) == [pc |-> "Failed", tempdir |-> ScopeExit(dir, TRUE)]

\* util.utcnow(): the clock, in whole seconds.
utcnow == now

\* A mutation of ExportStart: an attempt that follows a failed one takes up
\* the clock reading of the failed attempt.
ExportStartKeepsClock ==
    /\ kind \in ExportKinds /\ pc = "Idle"
    /\ ex' = [now |-> IF prev = {} THEN utcnow ELSE CHOOSE t \in prev : TRUE,
              offset |-> 0]
    /\ csv' = <<HeaderLine>>
    /\ tempdir' = "partial"
    /\ pc' = "Write"
    /\ UNCHANGED <<err, attempt, now, response, s3, prev, importState, inputs>>

\* now = util.utcnow(); the window and the filename; the directory is made,
\* the file opened and the header row written.
ExportStart ==
    /\ kind \in ExportKinds /\ pc = "Idle"
    /\ ex' = [now |-> utcnow, offset |-> 0]
    /\ csv' = <<HeaderLine>>
    /\ tempdir' = "partial"
    /\ pc' = "Write"
    /\ UNCHANGED <<err, attempt, now, response, s3, prev, importState, inputs>>

\* One turn of the loop with a page of rows: they are written.
WritePage ==
    /\ pc = "Write"
    /\ Page(cell_table, Hourly, ex.now, ex.offset) /= <<>>
    /\ \A i \in 1..Len(Page(cell_table, Hourly, ex.now, ex.offset)) :
          ~ExportDictRaises(Page(cell_table, Hourly, ex.now, ex.offset)[i])
    /\ csv' = csv \o DataLines(Page(cell_table, Hourly, ex.now, ex.offset))
    /\ ex' = [ex EXCEPT !.offset = ex.offset + limit]
    /\ UNCHANGED <<pc, err, attempt, now, response, tempdir, s3, prev, importState,
                   inputs>>

\* One turn of the loop with a page a row of which make_dict raises on.
WritePageRaises ==
    /\ pc = "Write"
    /\ \E i \in 1..Len(Page(cell_table, Hourly, ex.now, ex.offset)) :
          ExportDictRaises(Page(cell_table, Hourly, ex.now, ex.offset)[i])
    /\ pc' = WriteRaised(tempdir).pc
    /\ tempdir' = WriteRaised(tempdir).tempdir
    /\ err' = "write"
    /\ UNCHANGED <<attempt, now, response, ex, csv, s3, prev, importState, inputs>>

\* The query or the write raises (store or disk error).
WriteRaises ==
    /\ pc = "Write"
    /\ pc' = WriteRaised(tempdir).pc
    /\ tempdir' = WriteRaised(tempdir).tempdir
    /\ err' = "write"
    /\ UNCHANGED <<attempt, now, response, ex, csv, s3, prev, importState, inputs>>

\* The empty page: break; the file is closed.
WriteEnd ==
    /\ pc = "Write"
    /\ Page(cell_table, Hourly, ex.now, ex.offset) = <<>>
    /\ tempdir' = "complete"
    /\ pc' = "Upload"
    /\ UNCHANGED <<err, attempt, now, response, ex, csv, s3, prev, importState, inputs>>

\* The object write_stations_to_s3 stores: key 'export/<filename>', the
\* staged file's lines; with the attempt that sent it, its clock and the
\* state of the staged file when it was sent.
Object ==
    [key |-> Filename(Hourly, ex.now), lines |-> csv, now |-> ex.now,
     attempt |-> attempt, staged |-> tempdir]

\* write_stations_to_s3 stores the file; the scopes are left.
Upload ==
    /\ pc = "Upload"
    /\ s3' = {o \in s3 : o.key /= Object.key} \cup {Object}
    /\ tempdir' = ScopeExit(tempdir, FALSE)
    /\ pc' = "Done"
    /\ UNCHANGED <<err, attempt, now, response, ex, csv, prev, importState, inputs>>

\* write_stations_to_s3 raises: no object is stored.
UploadRaises ==
    /\ pc = "Upload"
    /\ pc' = "Failed"
    /\ err' = "upload"
    /\ tempdir' = ScopeExit(tempdir, TRUE)
    /\ UNCHANGED <<attempt, now, response, ex, csv, s3, prev, importState, inputs>>

(***************************************************************************)
(* The scheduler and the clock.                                            *)
(***************************************************************************)
\* The attempt is cancelled: an exception that is no Exception unwinds the
\* with-blocks and passes the except clause.
Cancel ==
    /\ pc \in Running
    /\ pc' = "Cancelled"
    /\ err' = "cancel"
    /\ tempdir' = IF tempdir = "none" THEN "none" ELSE ScopeExit(tempdir, TRUE)
    /\ partials' = IF nCommitted > 0 THEN partials + 1 ELSE partials
    /\ UNCHANGED <<attempt, now, response, ocid_cell_table, rd, startStore,
                   nCommitted, skipped, runs, snap, exportState, inputs>>

\* The scheduler runs the task again.
Rerun ==
    /\ pc \in Ended /\ attempt < MaxAttempts
    /\ pc' = "Idle"
    /\ err' = "none"
    /\ attempt' = attempt + 1
    /\ prev' = IF kind \in ExportKinds /\ pc = "Failed" THEN {ex.now} ELSE {}
    /\ UNCHANGED <<now, response, tempdir, importState, ex, csv, s3, inputs>>

\* Time passes before an export attempt starts (an attempt reads the clock
\* once, as it starts).
Tick ==
    /\ kind \in ExportKinds /\ pc = "Idle"
    /\ \E t \in Instants : t > now /\ now' = t
    /\ UNCHANGED <<pc, err, attempt, response, tempdir, importState,
                   exportState, inputs>>

Next ==
    \/ StartImportLocal \/ FetchAnswers \/ FetchRaises
    \/ Download \/ DownloadRaises
    \/ ReadGarbage \/ ReadRaises \/ ReadHeader \/ ReadConvertRaises
    \/ ReadAppend \/ ReadFlush \/ ReadFlushRaises \/ ReadEnd \/ ReadEndRaises
    \/ ExportStart \/ WritePage \/ WritePageRaises \/ WriteRaises \/ WriteEnd
    \/ Upload \/ UploadRaises
    \/ Cancel \/ Rerun \/ Tick

Spec == Init /\ [][Next]_vars

(***************************************************************************)
(* Two import jobs side by side on one ocid_cell_table.  Each job runs     *)
(* import_stations on its own file with its own locals; a batch's execute  *)
(* and commit is one step of the store (the statement's row locks are held *)
(* to the commit).                                                         *)
(***************************************************************************)
JobIds == {1, 2}

\* The files of job j: data lines that convert, of two keys; both jobs
\* have lines of both keys.
JobFiles(j) ==
    {f \in Files : \A i \in 1..Len(f) :
        f[i] \in (IF j = 1 THEN {"A1", "A2", "B"} ELSE {"A2", "B"})}

\* What is not touched by these jobs.
jobsFrame ==
    <<kind, pc, err, attempt, now, cell_table, file, response, tempdir, rd, ex,
      csv, s3, startStore, nCommitted, skipped, runs, snap, partials, store0,
      prev, touched>>

JobsInit ==
    /\ kind = "import_ocid_cells"
    /\ pc = "Idle"
    /\ err = "none"
    /\ attempt = 1
    /\ now = HOUR
    /\ file = <<>> /\ ocid_cell_table \in OcidTables /\ cell_table = <<>>
    /\ response = "none"
    /\ tempdir = "none"
    /\ rd = FreshReader
    /\ ex = [now |-> 0, offset |-> 0]
    /\ csv = <<>>
    /\ s3 = {}
    /\ startStore = ocid_cell_table
    /\ nCommitted = 0
    /\ skipped = {}
    /\ runs = 0
    /\ snap = {}
    /\ partials = 0
    /\ store0 = ocid_cell_table
    /\ prev = {}
    /\ \E f1 \in JobFiles(1), f2 \in JobFiles(2) :
          jobs = [j \in JobIds |->
                    [file |-> IF j = 1 THEN f1 ELSE f2, rd |-> FreshReader,
                     pc |-> "Read"]]
    /\ applied = <<>>
    /\ touched = {}

\* The line job j is at.
JobLine(j) == Line(jobs[j].file[jobs[j].rd.pos])

\* The rows of a batch as job j applies them.
AppliedBy(j, rows) == [i \in 1..Len(rows) |-> [job |-> j, row |-> rows[i]]]

\* Job j converts and appends its line; its batch is not full.
JobAppend(j) ==
    /\ jobs[j].pc = "Read" /\ jobs[j].rd.pos <= Len(jobs[j].file)
    /\ Len(Appended(jobs[j].rd.rows, JobLine(j))) /= batch
    /\ jobs' = [jobs EXCEPT ![j].rd =
                    [pos |-> jobs[j].rd.pos + 1, first |-> jobs[j].rd.first,
                     rows |-> Appended(jobs[j].rd.rows, JobLine(j))]]
    /\ UNCHANGED <<ocid_cell_table, applied, jobsFrame>>

\* The line fills job j's batch: execute, commit, rows = [].
JobFlush(j) ==
    /\ jobs[j].pc = "Read" /\ jobs[j].rd.pos <= Len(jobs[j].file)
    /\ Len(Appended(jobs[j].rd.rows, JobLine(j))) = batch
    /\ ocid_cell_table' =
          ExecuteCommit(ocid_cell_table, Appended(jobs[j].rd.rows, JobLine(j)))
    /\ applied' = applied \o AppliedBy(j, Appended(jobs[j].rd.rows, JobLine(j)))
    /\ jobs' = [jobs EXCEPT ![j].rd =
                    [pos |-> jobs[j].rd.pos + 1, first |-> jobs[j].rd.first,
                     rows |-> <<>>]]
    /\ UNCHANGED jobsFrame

\* Job j is at the end of its file: `if rows: execute, commit'.
JobEnd(j) ==
    /\ jobs[j].pc = "Read" /\ jobs[j].rd.pos > Len(jobs[j].file)
    /\ ocid_cell_table' =
          IF jobs[j].rd.rows /= <<>>
          THEN ExecuteCommit(ocid_cell_table, jobs[j].rd.rows)
          ELSE ocid_cell_table
    /\ applied' = applied \o AppliedBy(j, jobs[j].rd.rows)
    /\ jobs' = [jobs EXCEPT ![j].pc = "Done",
                            ![j].rd = [pos |-> jobs[j].rd.pos,
                                       first |-> jobs[j].rd.first, rows |-> <<>>]]
    /\ UNCHANGED jobsFrame

JobsNext ==
    \/ \E j \in JobIds : JobAppend(j)
    \/ \E j \in JobIds : JobFlush(j)
    \/ \E j \in JobIds : JobEnd(j)

SpecJobs == JobsInit /\ [][JobsNext]_vars

(***************************************************************************)
(* An export while other sessions change cell_table.  Every page is its    *)
(* own query (no transaction spans the loop of write_stations_to_csv), so  *)
(* a change may commit between any two page fetches.                       *)
(***************************************************************************)
\* What the other sessions do not touch.
driftFrame ==
    <<kind, pc, err, attempt, now, ocid_cell_table, file, response, tempdir,
      rd, ex, csv, s3, startStore, nCommitted, skipped, runs, snap, partials,
      store0, prev, jobs, applied>>

DriftInit ==
    /\ kind \in ExportKinds
    /\ pc = "Idle"
    /\ err = "none"
    /\ attempt = 1
    /\ now \in Instants
    /\ file = <<>> /\ ocid_cell_table = <<>> /\ cell_table \in CellTables
    /\ response = "none"
    /\ tempdir = "none"
    /\ rd = FreshReader
    /\ ex = [now |-> 0, offset |-> 0]
    /\ csv = <<>>
    /\ s3 = {}
    /\ startStore = <<>>
    /\ nCommitted = 0
    /\ skipped = {}
    /\ runs = 0
    /\ snap = {}
    /\ partials = 0
    /\ store0 = <<>>
    /\ prev = {}
    /\ jobs = <<>>
    /\ applied = <<>>
    /\ touched = {}

\* Another session may change a row between two page fetches.
MayTouch == pc = "Write" /\ Cardinality(touched) < MaxTouched

\* A row is deleted.
DeleteRow ==
    /\ MayTouch
    /\ \E i \in 1..Len(cell_table) :
          /\ cell_table[i].id \notin touched
          /\ cell_table' = SubSeq(cell_table, 1, i - 1)
                               \o SubSeq(cell_table, i + 1, Len(cell_table))
          /\ touched' = touched \cup {cell_table[i].id}
    /\ UNCHANGED driftFrame

\* A row is inserted: it gets the next id.
InsertRow ==
    /\ MayTouch
    /\ \E n \in 1..Len(CellPool) :
          /\ \A i \in 1..Len(cell_table) : cell_table[i].id < CellPool[n].id
          /\ \A id \in touched : id < CellPool[n].id
          /\ cell_table' = Append(cell_table, CellPool[n])
          /\ touched' = touched \cup {CellPool[n].id}
    /\ UNCHANGED driftFrame

\* A row is updated from new observations: it gets a position and its
\* modified time is the time of the update.
UpdateRow ==
    /\ MayTouch
    /\ \E i \in 1..Len(cell_table) :
          /\ cell_table[i].id \notin touched
          /\ cell_table' = [cell_table EXCEPT ![i].modified = now,
                                              ![i].lat = {10}, ![i].lon = {20}]
          /\ touched' = touched \cup {cell_table[i].id}
    /\ UNCHANGED driftFrame

DriftNext ==
    \/ ExportStart \/ WritePage \/ WritePageRaises \/ WriteEnd \/ Upload
    \/ DeleteRow \/ InsertRow \/ UpdateRow

SpecDrift == DriftInit /\ [][DriftNext]_vars

(***************************************************************************)
(* Properties.                                                             *)
(***************************************************************************)
NoDuplicateKeys(table) ==
    \A i, j \in 1..Len(table) :
        NaturalKey(table[i]) = NaturalKey(table[j]) => i = j

\* The columns the upsert overwrites.
Overwritten(d) == <<d.modified, d.total_measures, d.lat, d.lon, d.psc, d.range>>

\* C1: an import of the file that follows an import of the same file leaves
\* ocid_cell_table as the first import left it, every column of every row,
\* and no natural key is in two rows.
C1_ImportTwiceIsImportOnce ==
    (kind \in ImportKinds /\ pc \in {"Done", "Failed"}
        /\ err \in {"none", "convert"} /\ runs >= 2)
    => (snap = {ocid_cell_table} /\ NoDuplicateKeys(ocid_cell_table))

\* A second import of a file of two batches has ended, on a table the file
\* changed.
C1_Witness ==
    /\ kind \in ImportKinds /\ pc = "Done" /\ runs >= 2
    /\ nCommitted >= 2 /\ ocid_cell_table /= store0

\* The line is data that converts to a row.
AcceptableLine(i) ==
    /\ ~(i = 1 /\ IsHeader(Line(file[1])))
    /\ ~ImportDictRaises(Line(file[i]))
    /\ make_cell_import_dict(Line(file[i])) /= {}

\* C2: a line whose conversion fails is skipped and the import does not
\* abort; when the job is Done every other acceptable line of the file has
\* been upserted.
C2_RowRejectionIsLocal ==
    kind \in ImportKinds =>
        /\ err /= "convert"
        /\ pc = "Done" =>
              \A i \in 1..Len(file) :
                  AcceptableLine(i) =>
                      \E j \in 1..Len(ocid_cell_table) :
                          \E d \in make_cell_import_dict(Line(file[i])) :
                              NaturalKey(ocid_cell_table[j]) = NaturalKey(d)

\* C3: when an import has failed, ocid_cell_table is the table the attempt
\* started from with exactly the batches committed before the failure
\* upserted in file order: a prefix of the accepted rows, a multiple of the
\* batch size long; the rows of the batch in progress are not applied.
C3_FailedKeepsCommittedBatches ==
    (kind \in ImportKinds /\ pc = "Failed") =>
        LET acc == Accepted(file)
            n == nCommitted * batch
        IN  /\ n <= Len(acc)
            /\ ocid_cell_table = UpsertAll(startStore, SubSeq(acc, 1, n))
            /\ rd.rows = SubSeq(acc, n + 1, n + Len(rd.rows))

\* An import has failed in its second batch, after a commit that changed
\* the table.
C3_Witness ==
    /\ kind \in ImportKinds /\ pc = "Failed"
    /\ nCommitted >= 1 /\ rd.rows /= <<>>
    /\ ocid_cell_table /= startStore

\* C4: an import that completes, after any number of attempts on the file
\* that failed part-way, leaves ocid_cell_table as one uninterrupted import
\* of the file from the original table leaves it.
C4_RerunEqualsSingleImport ==
    (kind \in ImportKinds /\ pc = "Done") =>
        ocid_cell_table = RunImport(store0, Accepted(file))

\* An import has completed after an attempt that failed after a commit.
C4_Witness ==
    /\ kind \in ImportKinds /\ pc = "Done"
    /\ partials >= 1 /\ nCommitted >= 2
    /\ ocid_cell_table /= store0

\* The hourly exports in the bucket.
Diffs == {o \in s3 : o.key[1] = "diff"}

\* C5: of two hourly exports that ran in consecutive hours, at whatever
\* instants of those hours, with windows [t0,t1) and [t1,t2): no record
\* modified in [t0,t1) is in the second file, and none modified in [t1,t2)
\* is in the first.
C5_HourlyWindowsDisjoint ==
    \A o1, o2 \in Diffs :
        (o2.now \div 3600 = o1.now \div 3600 + 1) =>
            LET t1 == (o1.now \div 3600) * 3600
            IN  /\ \A d \in DataRows(o2.lines) :
                      ~(t1 - 3600 <= d.updated /\ d.updated < t1)
                /\ \A d \in DataRows(o1.lines) :
                      ~(t1 <= d.updated /\ d.updated < t1 + 3600)

\* Two hourly exports of consecutive hours are in the bucket, each with
\* records, the first having started in the last second of its hour.
C5_Witness ==
    \E o1, o2 \in Diffs :
        /\ o2.now \div 3600 = o1.now \div 3600 + 1
        /\ o1.now % 3600 = 3599
        /\ DataRows(o1.lines) /= {} /\ DataRows(o2.lines) /= {}

\* C6: no line written to an export file is of a record whose lat or lon
\* is unset (NULL or the sentinel -255.0), or of a LAC-aggregate record.
C6_NoUnsetCoordinatesExported ==
    \A d \in DataRows(csv) :
        /\ d.lat /= {} /\ d.lon /= {}
        /\ d.lat /= {-2550} /\ d.lon /= {-2550}
        /\ d.cid /= CELLID_LAC

\* C7: the upload starts only with the staged file written to its end and
\* closed; after an exception in Write the attempt sends nothing; every
\* object of the bucket was sent from a complete file.
C7_UploadOnlyOfCompleteFile ==
    /\ pc = "Upload" => tempdir = "complete"
    /\ err = "write" => (pc /= "Upload" /\ \A o \in s3 : o.attempt /= attempt)
    /\ \A o \in s3 : o.staged = "complete"

\* An export of more than one page has been uploaded.
C7_Witness ==
    /\ pc = "Done"
    /\ \E o \in s3 : o.attempt = attempt /\ Len(o.lines) > limit + 1

\* C8: when an attempt has left the scope of its temporary directory (it
\* is done, has failed and signalled retry, or was cancelled) the directory
\* and the file staged in it are gone.
C8_TempdirRemoved == pc \in Ended \cup {"Idle"} => tempdir = "none"

\* An export has failed in the upload, with a complete file staged.
C8_Witness == pc = "Failed" /\ err = "upload" /\ Len(csv) > 1

\* C9: only the first line of the file can be skipped as a header: it is
\* skipped exactly when it has the header shape, and no later line is ever
\* skipped.
C9_OnlyFirstLineIsHeader ==
    (kind \in ImportKinds /\ pc = "Read") =>
        /\ skipped \subseteq {1}
        /\ rd.pos > 1 => (1 \in skipped <=> IsHeader(Line(file[1])))

\* C10: when an import is done, the overwritten columns of every key of the
\* file are those of the last accepted row of that key.
C10_LastRowOfKeyWins ==
    (kind \in ImportKinds /\ pc = "Done") =>
        LET acc == Accepted(file)
        IN  \A i \in 1..Len(acc) :
                (\A j \in (i + 1)..Len(acc) :
                    NaturalKey(acc[j]) /= NaturalKey(acc[i]))
                => \E k \in 1..Len(ocid_cell_table) :
                      /\ NaturalKey(ocid_cell_table[k]) = NaturalKey(acc[i])
                      /\ Overwritten(ocid_cell_table[k]) = Overwritten(acc[i])

\* An import is done of a file with two differing rows of one key, in
\* different batches.
C10_Witness ==
    /\ kind \in ImportKinds /\ pc = "Done"
    /\ LET acc == Accepted(file)
       IN  \E i, j \in 1..Len(acc) :
              /\ i < j
              /\ NaturalKey(acc[i]) = NaturalKey(acc[j])
              /\ Overwritten(acc[i]) /= Overwritten(acc[j])
              /\ (i - 1) \div batch /= (j - 1) \div batch

\* The columns the upsert leaves alone in a row that exists.
Kept(d) == <<d.created, d.radio, d.mcc, d.mnc, d.lac, d.cid, d.changeable>>

\* The accepted rows of the file with the key of row d.
Incoming(d) ==
    LET acc == Accepted(file)
    IN  {acc[i] : i \in {j \in 1..Len(acc) : NaturalKey(acc[j]) = NaturalKey(d)}}

\* C11: a step that changes ocid_cell_table deletes no row; a row that
\* existed keeps created, changeable and its key, and its six overwritten
\* columns are its old ones or all those of one incoming row of its key (a
\* sample count is replaced, never added to); a row the step adds has a key
\* the table did not hold and the columns of incoming rows of that key.
C11_UpsertFrame ==
    [][ocid_cell_table' /= ocid_cell_table =>
        /\ Len(ocid_cell_table') >= Len(ocid_cell_table)
        /\ \A k \in 1..Len(ocid_cell_table) :
              /\ Kept(ocid_cell_table'[k]) = Kept(ocid_cell_table[k])
              /\ \/ Overwritten(ocid_cell_table'[k]) = Overwritten(ocid_cell_table[k])
                 \/ \E d \in Incoming(ocid_cell_table[k]) :
                       Overwritten(ocid_cell_table'[k]) = Overwritten(d)
        /\ \A k \in (Len(ocid_cell_table) + 1)..Len(ocid_cell_table') :
              /\ \A j \in 1..Len(ocid_cell_table) :
                    NaturalKey(ocid_cell_table[j]) /= NaturalKey(ocid_cell_table'[k])
              /\ \E d \in Incoming(ocid_cell_table'[k]) :
                    Kept(ocid_cell_table'[k]) = Kept(d)
              /\ \E d \in Incoming(ocid_cell_table'[k]) :
                    Overwritten(ocid_cell_table'[k]) = Overwritten(d)
    ]_vars

\* An import is done on a table that held a row of a key of the file: the
\* row kept created and changeable with other values in the overwritten
\* columns, and a row of a new key was inserted.
C11_Witness ==
    /\ kind \in ImportKinds /\ pc = "Done"
    /\ store0 = <<OldRow>> /\ Len(ocid_cell_table) = 2
    /\ Kept(ocid_cell_table[1]) = Kept(OldRow)
    /\ Overwritten(ocid_cell_table[1]) = Overwritten(CHOOSE d \in make_cell_import_dict(RowA2) : TRUE)
    /\ Kept(ocid_cell_table[2]) = Kept(CHOOSE d \in make_cell_import_dict(RowB) : TRUE)

\* The last row applied with the key of row d.
LastApplied(d) ==
    LET is == {i \in 1..Len(applied) : NaturalKey(applied[i].row) = NaturalKey(d)}
    IN  applied[CHOOSE i \in is : \A k \in is : k <= i].row

\* C12: when two import jobs whose batches were upserted in any interleaving
\* are both done, no key is in two rows, every key applied has its row, and
\* the six overwritten columns of the row of each key are all those of one
\* incoming row, the one applied last for that key.
C12_ConcurrentUpsertsConverge ==
    (\A j \in JobIds : jobs[j].pc = "Done") =>
        /\ NoDuplicateKeys(ocid_cell_table)
        /\ \A i \in 1..Len(applied) :
              \E k \in 1..Len(ocid_cell_table) :
                  /\ NaturalKey(ocid_cell_table[k]) = NaturalKey(applied[i].row)
                  /\ Overwritten(ocid_cell_table[k]) =
                        Overwritten(LastApplied(applied[i].row))

\* Both jobs are done; a batch of job 2 was applied between two batches of
\* job 1, and the three batches put differing rows of one key.
C12_Witness ==
    /\ jobs /= <<>> /\ \A j \in JobIds : jobs[j].pc = "Done"
    /\ \E a, b, c \in 1..Len(applied) :
          /\ a < b /\ b < c
          /\ applied[a].job = 1 /\ applied[b].job = 2 /\ applied[c].job = 1
          /\ NaturalKey(applied[a].row) = NaturalKey(applied[b].row)
          /\ NaturalKey(applied[b].row) = NaturalKey(applied[c].row)
          /\ Overwritten(applied[a].row) /= Overwritten(applied[b].row)
          /\ Overwritten(applied[b].row) /= Overwritten(applied[c].row)

\* C13: an attempt of import_latest_ocid_cells whose GET was answered with
\* a status other than 200, or with no connection, fails without entering
\* Read (import_stations), and upserts no row.
C13_FetchFailureSkipsRead ==
    kind = "import_latest_ocid_cells" =>
        /\ pc = "Read" => response = "ok"
        /\ (pc \in Running \cup Ended /\ (response = "http_error" \/ err = "fetch"))
              => ocid_cell_table = startStore

\* The rows of cell_table the attempt's export selects whose radio code has
\* no export name.
Unmapped ==
    {cell_table[i] : i \in
        {j \in 1..Len(cell_table) :
            /\ Cond(Hourly, ex.now, cell_table[j])
            /\ \E c \in cell_table[j].radio : c \notin DOMAIN CELL_EXPORT_RADIO_NAMES}}

\* C14: an export attempt that selects a record whose radio code is not in
\* the export radio-name table never reaches the upload and is never Done;
\* it stores no object, and the record is on no line of its file under any
\* name.
C14_UnmappedRadioFailsExport ==
    (kind \in ExportKinds /\ pc \in Running \cup Ended /\ Unmapped /= {}) =>
        /\ pc \notin {"Upload", "Done"}
        /\ \A o \in s3 : o.attempt /= attempt
        /\ \A d \in DataRows(csv) : \A r \in Unmapped : d.cid /= r.cid

\* An export has failed in Write at its second page, which holds a record
\* whose radio code has no name; the first page was written.
C14_Witness ==
    /\ kind \in ExportKinds /\ pc = "Failed" /\ err = "write"
    /\ Len(csv) = limit + 1 /\ ex.offset = limit
    /\ \E i \in 1..Len(Page(cell_table, Hourly, ex.now, ex.offset)) :
          Page(cell_table, Hourly, ex.now, ex.offset)[i] \in Unmapped

\* The rows of cell_table the attempt's export selects, in id order.
Matching == SelectSeq(cell_table, LAMBDA r : Cond(Hourly, ex.now, r))

\* C15: with cell_table not modified during the export, when the writer has
\* ended it ended at the first empty page, and after the header the file
\* holds the line of every matching record exactly once, in ascending id
\* order, and no other line.
C15_ExportIsCompleteAndOrdered ==
    (kind \in ExportKinds /\ pc \in {"Upload", "Done"}) =>
        /\ Len(csv) = Len(Matching) + 1
        /\ \A i \in 1..Len(Matching) : csv[i + 1] = DataLine(Matching[i])
        /\ \A i, j \in 1..Len(Matching) : i < j => Matching[i].id < Matching[j].id
        /\ ex.offset >= Len(Matching) /\ ex.offset < Len(Matching) + limit

\* The writer has ended after two full pages and the empty page that
\* follows them.
C15_Witness ==
    /\ kind \in ExportKinds /\ pc = "Upload"
    /\ ex.offset = 2 * limit /\ Len(csv) = 2 * limit + 1

\* C16: from the moment the file is opened, its first line is the header
\* row and every line after it is a data row, whatever the number of pages
\* written, none included; so is every file in the bucket.
C16_HeaderOnceAndFirst ==
    /\ (kind \in ExportKinds /\ pc \in {"Write", "Upload", "Done"}) =>
          /\ Len(csv) >= 1 /\ csv[1] = HeaderLine
          /\ \A i \in 2..Len(csv) : csv[i].hdr = <<>> /\ csv[i].row /= {}
    /\ \A o \in s3 :
          /\ Len(o.lines) >= 1 /\ o.lines[1] = HeaderLine
          /\ \A i \in 2..Len(o.lines) : o.lines[i].hdr = <<>> /\ o.lines[i].row /= {}

\* The bucket holds a file of an export whose first page was empty, the
\* header row alone, and a file of an export of more than one page.
C16_Witness ==
    \E o1, o2 \in s3 :
        /\ o1.lines = <<HeaderLine>>
        /\ Len(o2.lines) > limit + 1

\* C17: the rows an export holds, the page it fetched, are never more than
\* limit; the pending batch of an import never holds more than batch rows
\* and, while the import reads and when it is done, fewer: a batch that
\* reaches the size is upserted and emptied in the same step; an import
\* that is done of M accepted rows has committed the upsert of
\* ceil(M / batch) batches, none of them empty.
C17_BoundedPageAndBatch ==
    /\ (kind \in ExportKinds /\ pc = "Write") =>
          Len(Page(cell_table, Hourly, ex.now, ex.offset)) <= limit
    /\ kind \in ImportKinds =>
          /\ Len(rd.rows) <= batch
          /\ pc \in {"Read", "Done"} => Len(rd.rows) < batch
          /\ pc = "Done" =>
                nCommitted = (Len(Accepted(file)) + batch - 1) \div batch

\* An import is done of a file whose accepted rows are a full batch and one
\* row more: two upserts.
C17_Witness ==
    /\ kind \in ImportKinds /\ pc = "Done"
    /\ Len(Accepted(file)) = batch + 1 /\ nCommitted = 2

\* C18: the row make_cell_import_dict yields for a line of the file an
\* import is about to read has lat -255.0 when the line's lat is empty,
\* lon -255.0 when its lon is empty and psc -1 when its psc is empty, and
\* the rows of the pending
\* batch and of the table that came from such lines hold these values; the
\* fields make_cell_export_dict yields for a record whose psc is -1 or NULL
\* have an empty unit, and no line of the export file has unit -1.
C18_SentinelsAtTheBoundary ==
    /\ pc = "Idle" =>
          \A i \in 1..Len(file) :
              ~ImportDictRaises(Line(file[i])) =>
                  \A d \in make_cell_import_dict(Line(file[i])) :
                      /\ Line(file[i]).lat = E => d.lat = -2550
                      /\ Line(file[i]).lon = E => d.lon = -2550
                      /\ Line(file[i]).psc = E => d.psc = -1
    /\ \A i \in 1..Len(rd.rows) :
          NaturalKey(rd.rows[i]) = <<3, 100, 1, 2, 2>> =>
              /\ rd.rows[i].lat = -2550 /\ rd.rows[i].lon = -2550
              /\ rd.rows[i].psc = -1
    /\ \A i \in 1..Len(ocid_cell_table) :
          NaturalKey(ocid_cell_table[i]) = <<3, 100, 1, 2, 2>> =>
              /\ ocid_cell_table[i].lat = -2550 /\ ocid_cell_table[i].lon = -2550
              /\ ocid_cell_table[i].psc = -1
    /\ \A i \in 1..Len(cell_table) :
          (~ExportDictRaises(cell_table[i]) /\ cell_table[i].psc \in {{}, {-1}})
              => make_cell_export_dict(cell_table[i]).psc = {}
    /\ \A d \in DataRows(csv) : d.psc /= {-1}

\* An import is done that upserted a line without lat, lon and psc: its
\* row holds -255.0, -255.0 and -1.
C18_Witness ==
    /\ kind \in ImportKinds /\ pc = "Done"
    /\ \E i \in 1..Len(file) :
          /\ Line(file[i]).lat = E /\ Line(file[i]).lon = E /\ Line(file[i]).psc = E
    /\ \E k \in 1..Len(ocid_cell_table) :
          /\ ocid_cell_table[k].lat = -2550 /\ ocid_cell_table[k].lon = -2550
          /\ ocid_cell_table[k].psc = -1

\* The cid on a data line of the file.
LineCid(l) == (CHOOSE d \in l.row : TRUE).cid

\* The file holds a record twice.
Twice ==
    \E i, j \in 2..Len(csv) : i < j /\ LineCid(csv[i]) = LineCid(csv[j])

\* The file lacks a record that no session changed and that the export
\* selects: it matched from the first fetch to the last.
Omitted ==
    \E k \in 1..Len(cell_table) :
        /\ cell_table[k].id \notin touched
        /\ Cond(Hourly, ex.now, cell_table[k])
        /\ \A i \in 2..Len(csv) : LineCid(csv[i]) /= cell_table[k].cid

\* C19: the file an export has written to its end holds a record twice, or
\* lacks a record that matched during the whole export, only when a row of
\* cell_table was inserted, deleted or updated between its page fetches;
\* that such a change does make it so is the witness.
C19_DriftOnlyWhenRowsChange ==
    (kind \in ExportKinds /\ pc \in {"Upload", "Done"} /\ (Twice \/ Omitted))
        => touched /= {}

\* An export has written its file to the end, and a record that matched
\* during the whole export is not in it: a row of a page already written
\* was deleted or left the window, and the offset passed over the record.
C19_Witness ==
    /\ kind \in ExportKinds /\ pc = "Upload"
    /\ Omitted /\ ~Twice

\* C20: every attempt of an export, a re-attempt after a failure included,
\* works from the clock as it was when that attempt started: the time its
\* window and filename are computed from is that reading, and when it is
\* done its object has the filename of that hour (that day, for a full
\* export) and, for an hourly export, only records modified in the hour
\* before that hour.
C20_AttemptReadsItsOwnClock ==
    kind \in ExportKinds =>
        /\ pc \in Running \cup Ended => ex.now = now
        /\ pc = "Done" =>
              \E o \in s3 :
                  /\ o.attempt = attempt /\ o.now = now /\ o.lines = csv
                  /\ o.key = IF Hourly THEN <<"diff", now \div 3600>>
                             ELSE <<"full", (now \div 86400) * 24>>
                  /\ Hourly =>
                        \A d \in DataRows(o.lines) :
                            /\ d.updated >= (now \div 3600) * 3600 - 3600
                            /\ d.updated < (now \div 3600) * 3600

\* An hourly export is done on its second attempt, in a later hour than
\* the attempt that failed: the bucket holds the file of the later hour,
\* with records, and none of the hour of the failed attempt.
C20_Witness ==
    /\ Hourly /\ pc = "Done" /\ attempt = 2
    /\ \E t \in prev : t \div 3600 < now \div 3600
    /\ \E o \in s3 : o.key = <<"diff", now \div 3600>> /\ DataRows(o.lines) /= {}
    /\ \A o \in s3 : \A t \in prev : o.key /= <<"diff", t \div 3600>>

====
